---- MODULE Spec2Model ----
(***************************************************************************)
(* Backup / upload orchestration engine of NewBackupSystem.                *)
(*                                                                         *)
(* Eight specifications share this module:                                 *)
(*   Spec / FairSpec  : the two job trackers (backup_statuses,             *)
(*                      upload_statuses), the request handlers that create *)
(*                      jobs, the detached background tasks that update    *)
(*                      them, deletion and the retention sweeps;           *)
(*   SpecReconcile    : upsertTableData run by two backup jobs on one      *)
(*                      mirror table;                                      *)
(*   SpecUpload       : uploadTableRecords run twice against one remote    *)
(*                      table;                                             *)
(*   SpecCompare      : compareBackupWithRemote on a remote and a local    *)
(*                      database;                                          *)
(*   SpecCompareFiles : compareBackupFiles on a bucket and a local tree;   *)
(*   SpecBackupFiles  : backupFiles run repeatedly on one bucket;          *)
(*   SpecUploadFiles  : a files upload job, with uploadFiles;              *)
(*   SpecBackupDatabase / FairSpecBackupDatabase : backupDatabase on the   *)
(*                      tables of a remote database, page by page.         *)
(* Every variable is declared once; a specification leaves the variables   *)
(* of the others untouched.                                                *)
(***************************************************************************)
EXTENDS Integers, Sequences, FiniteSets, TLC

VARIABLES
    now,             \* Date.now() / new Date(), in clock ticks
    backupStatuses,  \* rows of table backup_statuses (unique on jobId)
    uploadStatuses,  \* rows of table upload_statuses (unique on jobId)
    tasks,           \* detached background tasks, in launch order
    errorLog,        \* console.error lines of setBackupStatus / setUploadStatus
    cleaned,         \* what the latest run of each retention sweep returned
    mirror,          \* rows of the mirror table backup_<t>, in insertion order
    mirrorExists,    \* whether backup_<t> exists in the local database
    hasIdColumn,     \* whether the source table has a column named id
    sourceRows,      \* the page of source rows both reconcile runs are given
    rec,             \* the two upsertTableData calls: position, counters, snapshots
    remote,          \* rows of the remote table (uploadTableRecords)
    remoteHasPk,     \* whether the remote table has an introspectable primary key
    records,         \* the mirror rows handed to uploadTableRecords
    up,              \* the uploadTableRecords call: position, counters, snapshots
    remoteTables,    \* remote database: table name -> set of row ids
    mirrorTables,    \* local database: backup table name -> row ids, in id order
    cmp,             \* compareBackupWithRemote: position, work lists, report
    bucket,          \* the listing of the bucket: files with key and size
    disk,            \* the local backup tree: relative path -> size of the file
    fc,              \* compareBackupFiles: position, flattened maps, report
    bf,              \* backupFiles: position, counters, run number
    uf,              \* the files upload job: position, status, uploadFiles result
    bd               \* backupDatabase: position, page, counters, results, statements

trackerVars   == <<now, backupStatuses, uploadStatuses, tasks, errorLog, cleaned>>
reconcileVars == <<mirror, mirrorExists, hasIdColumn, sourceRows, rec>>
uploadVars    == <<remote, remoteHasPk, records, up>>
compareVars   == <<remoteTables, mirrorTables, cmp>>
filesVars     == <<bucket, disk, fc, bf, uf>>
vars          == <<trackerVars, reconcileVars, uploadVars, compareVars, filesVars, bd>>

(***************************************************************************)
(* Bounds of the model.                                                    *)
(***************************************************************************)
MaxClock == 2
MaxTasks == 2
MaxRows == 2
MaxRecords == 2
MaxRuns == 2
MaxId == 2
MaxMirrorRows == 2
MaxSize == 2
MaxListing == 2
PageLimit == 2
\* BACKUP_STATUS_CLEANUP_DAYS / UPLOAD_STATUS_CLEANUP_DAYS as set in the
\* environment, in clock ticks (one tick stands for one day in the sweeps).
BackupCleanupDays == 1
UploadCleanupDays == 1

Null == "null"

(***************************************************************************)
(* Settings registry (models/Setting.js): backend A has a database URL and  *)
(* no bucket URL, so its database jobs run and its files jobs find the     *)
(* needed field missing.                                                   *)
(***************************************************************************)
Settings ==
    { [backendname |-> "A", DBurl |-> "postgres://a", bucketurl |-> ""] }

findAll == Settings

findByBackendName(backendName) ==
    IF \E s \in Settings : s.backendname = backendName
    THEN CHOOSE s \in Settings : s.backendname = backendName
    ELSE [backendname |-> Null, DBurl |-> "", bucketurl |-> ""]

Types == {"files", "database"}
RequestBackends == {"A", "Z"}
RequestTables == {"", "backup_t"}

\* tableName.replace(/^backup_/i, '')
StripBackupPrefix(tableName) ==
    IF tableName = "backup_t" THEN "t" ELSE tableName

(***************************************************************************)
(* Job ids.                                                                *)
(***************************************************************************)
\* `${backendName}_${type}_${Date.now()}`
generateJobId(backendName, type) == <<"", backendName, type, "", now>>

\* `upload_${backendName}_${type}${tablePart}_${timestamp}`
generateUploadJobId(backendName, type, tableName) ==
    <<"upload", backendName, type, tableName, now>>

(***************************************************************************)
(* Job tracker.  A patch is a record holding only the fields the caller    *)
(* passed; a field that is not in its domain is JavaScript's undefined.    *)
(***************************************************************************)
Has(patch, f) == f \in DOMAIN patch

Terminal == {"completed", "failed"}

Exists(store, jobId) == \E r \in store : r.jobId = jobId
Find(store, jobId) == CHOOSE r \in store : r.jobId = jobId

\* status.type || existingRecord?.type  (and the same for backendName)
Resolved(store, jobId, patch, f) ==
    IF Has(patch, f) /\ patch[f] # "" /\ patch[f] # Null THEN patch[f]
    ELSE IF Exists(store, jobId) THEN Find(store, jobId)[f]
    ELSE ""

\* An update that writes the column default for a field the patch leaves out.
BackupUpdatedWhole(r, patch) ==
    [r EXCEPT
        !.status = IF Has(patch, "status") THEN patch.status ELSE @,
        !.progress = IF Has(patch, "progress") THEN patch.progress ELSE 0,
        !.message = IF Has(patch, "message") THEN patch.message ELSE Null,
        !.result = IF Has(patch, "result") THEN patch.result ELSE Null,
        !.error = IF Has(patch, "error") THEN patch.error ELSE Null,
        !.isAutomatic = IF Has(patch, "isAutomatic") THEN patch.isAutomatic ELSE FALSE,
        !.updatedAt = now]

\* prisma.backupStatus.update: sparse data, updatedAt always set
BackupUpdated(r, patch) ==
    [r EXCEPT
        !.status = IF Has(patch, "status") THEN patch.status ELSE @,
        !.progress = IF Has(patch, "progress") THEN patch.progress ELSE @,
        !.message = IF Has(patch, "message") THEN patch.message ELSE @,
        !.result = IF Has(patch, "result") THEN patch.result ELSE @,
        !.error = IF Has(patch, "error") THEN patch.error ELSE @,
        !.isAutomatic = IF Has(patch, "isAutomatic") THEN patch.isAutomatic ELSE @,
        !.updatedAt = now]

\* prisma.backupStatus.create
BackupCreated(jobId, patch, type, backendName) ==
    [jobId |-> jobId,
     status |-> patch.status,
     type |-> type,
     backendName |-> backendName,
     progress |-> IF Has(patch, "progress") THEN patch.progress ELSE 0,
     message |-> IF Has(patch, "message") THEN patch.message ELSE Null,
     result |-> IF Has(patch, "result") THEN patch.result ELSE Null,
     error |-> IF Has(patch, "error") THEN patch.error ELSE Null,
     isAutomatic |-> IF Has(patch, "isAutomatic") THEN patch.isAutomatic ELSE FALSE,
     createdAt |-> now,
     updatedAt |-> now]

\* A setBackupStatus that returns without writing.
setBackupStatusDropped(store, jobId, patch) ==
    [store |-> store, error |-> Null, thrown |-> FALSE]

\* setBackupStatus: the store afterwards, the error raised inside, and whether
\* the caller sees it (it never does: the catch logs and returns).
setBackupStatus(store, jobId, patch) ==
    LET type == Resolved(store, jobId, patch, "type")
        backendName == Resolved(store, jobId, patch, "backendName")
    IN  IF ~Exists(store, jobId) /\ (type = "" \/ backendName = "")
        THEN [store |-> store, error |-> "Missing required fields", thrown |-> FALSE]
        ELSE IF Exists(store, jobId)
        THEN [store |-> (store \ {Find(store, jobId)})
                            \cup {BackupUpdated(Find(store, jobId), patch)},
              error |-> Null, thrown |-> FALSE]
        ELSE [store |-> store \cup {BackupCreated(jobId, patch, type, backendName)},
              error |-> Null, thrown |-> FALSE]

\* prisma.uploadStatus.update
UploadUpdated(r, patch) ==
    [r EXCEPT
        !.status = IF Has(patch, "status") THEN patch.status ELSE @,
        !.progress = IF Has(patch, "progress") THEN patch.progress ELSE @,
        !.message = IF Has(patch, "message") THEN patch.message ELSE @,
        !.result = IF Has(patch, "result") THEN patch.result ELSE @,
        !.error = IF Has(patch, "error") THEN patch.error ELSE @,
        !.updatedAt = now]

\* prisma.uploadStatus.create
UploadCreated(jobId, patch, type, backendName, tableName) ==
    [jobId |-> jobId,
     status |-> patch.status,
     type |-> type,
     backendName |-> backendName,
     tableName |-> IF tableName = "" THEN Null ELSE tableName,
     progress |-> IF Has(patch, "progress") THEN patch.progress ELSE 0,
     message |-> IF Has(patch, "message") THEN patch.message ELSE Null,
     result |-> IF Has(patch, "result") THEN patch.result ELSE Null,
     error |-> IF Has(patch, "error") THEN patch.error ELSE Null,
     createdAt |-> now,
     updatedAt |-> now]

\* A setUploadStatus whose catch logs and returns, as setBackupStatus does.
setUploadStatusSwallowed(store, jobId, patch) ==
    LET type == Resolved(store, jobId, patch, "type")
        backendName == Resolved(store, jobId, patch, "backendName")
        tableName == Resolved(store, jobId, patch, "tableName")
    IN  IF Exists(store, jobId)
        THEN [store |-> (store \ {Find(store, jobId)})
                            \cup {UploadUpdated(Find(store, jobId), patch)},
              error |-> Null, thrown |-> FALSE]
        ELSE IF type = "" \/ backendName = ""
        THEN [store |-> store, error |-> "Missing required fields", thrown |-> FALSE]
        ELSE [store |-> store
                  \cup {UploadCreated(jobId, patch, type, backendName, tableName)},
              error |-> Null, thrown |-> FALSE]

\* setUploadStatus: as setBackupStatus, but the catch rethrows.
setUploadStatus(store, jobId, patch) ==
    LET type == Resolved(store, jobId, patch, "type")
        backendName == Resolved(store, jobId, patch, "backendName")
        tableName == Resolved(store, jobId, patch, "tableName")
    IN  IF Exists(store, jobId)
        THEN [store |-> (store \ {Find(store, jobId)})
                            \cup {UploadUpdated(Find(store, jobId), patch)},
              error |-> Null, thrown |-> FALSE]
        ELSE IF type = "" \/ backendName = ""
        THEN [store |-> store, error |-> "Missing required fields", thrown |-> TRUE]
        ELSE [store |-> store
                  \cup {UploadCreated(jobId, patch, type, backendName, tableName)},
              error |-> Null, thrown |-> FALSE]

\* A deleteMany filter without the status condition.
ExpiredAnyStatus(r, cleanupDays) == r.createdAt < now - cleanupDays

\* deleteMany where createdAt < cutoffDate and status in (completed, failed)
Expired(r, cleanupDays) ==
    r.createdAt < now - cleanupDays /\ r.status \in Terminal



(***************************************************************************)
(* Request handlers.  A handler runs to its response in one step; the      *)
(* background task it launches is left at its first statement.             *)
(***************************************************************************)
Task(kind, jobId, type, backendName, tableName) ==
    [kind |-> kind, jobId |-> jobId, type |-> type, backendName |-> backendName,
     tableName |-> tableName, pc |-> "start", error |-> Null]

\* console.error('Error setting ... status:', error)
Logged(tracker, jobId, r) ==
    IF r.error # Null THEN errorLog \cup {<<tracker, jobId>>} ELSE errorLog

TrackerIdle == UNCHANGED <<reconcileVars, uploadVars, compareVars, filesVars, bd>>

\* POST /api/backup
createBackup(type, backendName) ==
    LET setting == findByBackendName(backendName)
        jobId == generateJobId(backendName, type)
        r == setBackupStatus(backupStatuses, jobId,
                 [status |-> "processing", type |-> type,
                  backendName |-> setting.backendname, progress |-> 0,
                  message |-> "Backup process started...", result |-> Null,
                  error |-> Null, isAutomatic |-> FALSE])
    IN  /\ Len(tasks) < MaxTasks
        /\ IF setting.backendname = Null
           THEN UNCHANGED <<backupStatuses, tasks, errorLog>>
           ELSE /\ backupStatuses' = r.store
                /\ errorLog' = Logged("backup", jobId, r)
                /\ tasks' = Append(tasks, Task("backup", jobId, type, backendName, ""))
        /\ UNCHANGED <<now, uploadStatuses, cleaned>>
        /\ TrackerIdle

\* POST /api/upload
uploadData(type, backendName, tableName) ==
    LET setting == findByBackendName(backendName)
        remoteTableName == StripBackupPrefix(tableName)
        jobId == generateUploadJobId(backendName, type, tableName)
        r == setUploadStatus(uploadStatuses, jobId,
                 [status |-> "processing", type |-> type,
                  backendName |-> setting.backendname,
                  tableName |-> remoteTableName, progress |-> 0,
                  message |-> "Upload process started...", result |-> Null,
                  error |-> Null])
    IN  /\ Len(tasks) < MaxTasks
        /\ IF (type = "database" /\ tableName = "") \/ setting.backendname = Null
           THEN UNCHANGED <<uploadStatuses, tasks, errorLog>>
           ELSE /\ uploadStatuses' = r.store
                /\ errorLog' = Logged("upload", jobId, r)
                /\ tasks' = IF r.thrown THEN tasks
                            ELSE Append(tasks, Task("upload", jobId, type,
                                                    backendName, tableName))
        /\ UNCHANGED <<now, backupStatuses, cleaned>>
        /\ TrackerIdle

\* The cron callback of startDatabaseAutoBackup / startFilesAutoBackup: one
\* job and one detached task for every setting.
RECURSIVE AutoStore(_, _, _)
AutoStore(store, todo, type) ==
    IF todo = {} THEN store
    ELSE LET s == CHOOSE x \in todo : TRUE
             r == setBackupStatus(store, generateJobId(s.backendname, type),
                      [status |-> "processing", type |-> type,
                       backendName |-> s.backendname, progress |-> 0,
                       message |-> "Automatic backup started...",
                       isAutomatic |-> TRUE])
         IN  AutoStore(r.store, todo \ {s}, type)

RECURSIVE AutoTasks(_, _, _)
AutoTasks(ts, todo, type) ==
    IF todo = {} THEN ts
    ELSE LET s == CHOOSE x \in todo : TRUE
         IN  AutoTasks(Append(ts, Task("auto", generateJobId(s.backendname, type),
                                       type, s.backendname, "")),
                       todo \ {s}, type)

autoBackupFire(type) ==
    /\ Len(tasks) + Cardinality(findAll) <= MaxTasks
    /\ backupStatuses' = AutoStore(backupStatuses, findAll, type)
    /\ tasks' = AutoTasks(tasks, findAll, type)
    /\ UNCHANGED <<now, uploadStatuses, errorLog, cleaned>>
    /\ TrackerIdle

\* DELETE /api/backup/status/:jobId
deleteBackupStatusController(jobId) ==
    /\ Exists(backupStatuses, jobId)
    /\ backupStatuses' = backupStatuses \ {Find(backupStatuses, jobId)}
    /\ UNCHANGED <<now, uploadStatuses, tasks, errorLog, cleaned>>
    /\ TrackerIdle

\* DELETE /api/upload/status/:id  (the row's primary key id names the row;
\* it stands one-to-one for the row's jobId)
deleteUploadStatusById(jobId) ==
    /\ Exists(uploadStatuses, jobId)
    /\ uploadStatuses' = uploadStatuses \ {Find(uploadStatuses, jobId)}
    /\ UNCHANGED <<now, backupStatuses, tasks, errorLog, cleaned>>
    /\ TrackerIdle

\* Retention sweeps (run at start and every 24 hours); each returns its count.
cleanupOldStatuses ==
    LET gone == {r \in backupStatuses : Expired(r, BackupCleanupDays)}
    IN  /\ backupStatuses' = backupStatuses \ gone
        /\ cleaned' = [cleaned EXCEPT !.backup = Cardinality(gone)]
        /\ UNCHANGED <<now, uploadStatuses, tasks, errorLog>>
        /\ TrackerIdle

cleanupOldUploadStatuses ==
    LET gone == {r \in uploadStatuses : Expired(r, UploadCleanupDays)}
    IN  /\ uploadStatuses' = uploadStatuses \ gone
        /\ cleaned' = [cleaned EXCEPT !.upload = Cardinality(gone)]
        /\ UNCHANGED <<now, backupStatuses, tasks, errorLog>>
        /\ TrackerIdle

\* The clock advances.
Tick ==
    /\ now < MaxClock
    /\ now' = now + 1
    /\ UNCHANGED <<backupStatuses, uploadStatuses, tasks, errorLog, cleaned>>
    /\ TrackerIdle

(***************************************************************************)
(* Background tasks.  One step per awaited call; the transfer itself       *)
(* (backupFiles, backupDatabase, uploadFiles, getBackupTableData,          *)
(* uploadTableRecords) either returns or throws.                           *)
(***************************************************************************)
Finished == {"done", "rejected", "killed"}

At(i, kinds, pc) == i \in DOMAIN tasks /\ tasks[i].kind \in kinds /\ tasks[i].pc = pc

SetPc(i, pc) == [tasks EXCEPT ![i].pc = pc]

\* The field a task needs is missing from its setting.
UrlMissing(t) ==
    LET setting == findByBackendName(t.backendName)
    IN  IF t.type = "files" THEN setting.bucketurl = "" ELSE setting.DBurl = ""

\* A backup task writes a patch and moves on: setBackupStatus never throws.
BackupWrite(i, patch, pc) ==
    LET r == setBackupStatus(backupStatuses, tasks[i].jobId, patch)
    IN  /\ backupStatuses' = r.store
        /\ errorLog' = Logged("backup", tasks[i].jobId, r)
        /\ tasks' = IF r.thrown THEN [tasks EXCEPT ![i].pc = "caught",
                                                   ![i].error = r.error]
                    ELSE SetPc(i, pc)
        /\ UNCHANGED <<now, uploadStatuses, cleaned>>
        /\ TrackerIdle

\* processBackupInBackground, up to its first progress write
backupTaskStart(i) ==
    /\ At(i, {"backup"}, "start")
    /\ IF UrlMissing(tasks[i])
       THEN BackupWrite(i, [status |-> "failed", error |-> "URL not configured"], "done")
       ELSE BackupWrite(i, [status |-> "processing", progress |-> 10,
                            message |-> "Connecting..."], "p10")

\* the second progress write (30)
backupTaskProgress(i) ==
    /\ At(i, {"backup"}, "p10")
    /\ BackupWrite(i, [status |-> "processing", progress |-> 30,
                       message |-> "Fetching..."], "p30")

\* the detached async function of the cron callback, up to its progress write
autoTaskStart(i) ==
    /\ At(i, {"auto"}, "start")
    /\ BackupWrite(i, [status |-> "processing", progress |-> 30,
                       message |-> "Fetching..."], "p30")

\* The transfer returns, or throws into the task's catch block.
Work(i, throws) ==
    /\ tasks' = IF throws THEN [tasks EXCEPT ![i].pc = "caught", ![i].error = "error"]
                ELSE SetPc(i, "worked")
    /\ UNCHANGED <<now, backupStatuses, uploadStatuses, errorLog, cleaned>>
    /\ TrackerIdle

\* await backupFiles(...) / await backupDatabase(...); without a bucket URL
\* backupFiles makes the backup directory and getAllFiles throws.
backupTaskWork(i, throws) ==
    /\ At(i, {"backup", "auto"}, "p30")
    /\ UrlMissing(tasks[i]) => throws
    /\ Work(i, throws)

\* the final write of the try block
backupTaskComplete(i) ==
    /\ At(i, {"backup", "auto"}, "worked")
    /\ BackupWrite(i, [status |-> "completed", progress |-> 100,
                       message |-> "Backup completed successfully",
                       result |-> "result"], "done")

\* the catch block
backupTaskCatch(i) ==
    /\ At(i, {"backup", "auto"}, "caught")
    /\ BackupWrite(i, IF tasks[i].kind = "auto"
                      THEN [status |-> "failed", error |-> tasks[i].error,
                            message |-> "Automatic backup failed"]
                      ELSE [status |-> "failed", error |-> tasks[i].error], "done")

\* An upload task writes a patch: setUploadStatus throws into the task's catch.
UploadWrite(i, patch, pc) ==
    LET r == setUploadStatus(uploadStatuses, tasks[i].jobId, patch)
    IN  /\ uploadStatuses' = r.store
        /\ errorLog' = Logged("upload", tasks[i].jobId, r)
        /\ tasks' = IF r.thrown THEN [tasks EXCEPT ![i].pc = "caught",
                                                   ![i].error = r.error]
                    ELSE SetPc(i, pc)
        /\ UNCHANGED <<now, backupStatuses, cleaned>>
        /\ TrackerIdle

\* processUploadInBackground, up to its first progress write
uploadTaskStart(i) ==
    /\ At(i, {"upload"}, "start")
    /\ IF UrlMissing(tasks[i])
       THEN UploadWrite(i, [status |-> "failed", error |-> "URL not configured"], "done")
       ELSE UploadWrite(i, [status |-> "processing", progress |-> 10,
                            message |-> "Reading..."],
                        IF tasks[i].type = "files" THEN "p10" ELSE "fetch")

\* the page loop over getBackupTableData (database uploads)
uploadTaskFetch(i, throws) ==
    /\ At(i, {"upload"}, "fetch")
    /\ tasks' = IF throws THEN [tasks EXCEPT ![i].pc = "caught", ![i].error = "error"]
                ELSE SetPc(i, "p10")
    /\ UNCHANGED <<now, backupStatuses, uploadStatuses, errorLog, cleaned>>
    /\ TrackerIdle

\* the second progress write (30 for files, 50 for a table)
uploadTaskProgress(i) ==
    /\ At(i, {"upload"}, "p10")
    /\ UploadWrite(i, [status |-> "processing",
                       progress |-> IF tasks[i].type = "files" THEN 30 ELSE 50,
                       message |-> "Uploading..."], "p30")

\* await uploadFiles(...) / await uploadTableRecords(...)
uploadTaskWork(i, throws) ==
    /\ At(i, {"upload"}, "p30")
    /\ Work(i, throws)

\* the final write of the try block
uploadTaskComplete(i) ==
    /\ At(i, {"upload"}, "worked")
    /\ UploadWrite(i, [status |-> "completed", progress |-> 100,
                       message |-> "Upload completed successfully",
                       result |-> "result"], "done")

\* Every unfinished task is lost when the process exits.
KillAll(ts) ==
    [k \in DOMAIN ts |->
        IF ts[k].pc \in Finished THEN ts[k] ELSE [ts[k] EXCEPT !.pc = "killed"]]

\* The catch block.  Its own setUploadStatus is not guarded: when it throws,
\* the promise of the detached task rejects with nobody awaiting it.  The
\* runtime then either only warns or ends the process (Node's default since
\* version 15), which loses every task still running.
uploadTaskCatch(i, exits) ==
    /\ At(i, {"upload"}, "caught")
    /\ LET r == setUploadStatus(uploadStatuses, tasks[i].jobId,
                    [status |-> "failed", error |-> tasks[i].error,
                     message |-> "Upload failed"])
       IN  /\ (r.thrown \/ ~exits)
           /\ uploadStatuses' = r.store
           /\ errorLog' = Logged("upload", tasks[i].jobId, r)
           /\ tasks' = IF ~r.thrown THEN SetPc(i, "done")
                       ELSE IF exits THEN KillAll(SetPc(i, "rejected"))
                       ELSE SetPc(i, "rejected")
    /\ UNCHANGED <<now, backupStatuses, cleaned>>
    /\ TrackerIdle

Slots == 1..MaxTasks

TaskStep ==
    \/ \E i \in Slots : backupTaskStart(i)
    \/ \E i \in Slots : backupTaskProgress(i)
    \/ \E i \in Slots : autoTaskStart(i)
    \/ \E i \in Slots, throws \in BOOLEAN : backupTaskWork(i, throws)
    \/ \E i \in Slots : backupTaskComplete(i)
    \/ \E i \in Slots : backupTaskCatch(i)
    \/ \E i \in Slots : uploadTaskStart(i)
    \/ \E i \in Slots, throws \in BOOLEAN : uploadTaskFetch(i, throws)
    \/ \E i \in Slots : uploadTaskProgress(i)
    \/ \E i \in Slots, throws \in BOOLEAN : uploadTaskWork(i, throws)
    \/ \E i \in Slots : uploadTaskComplete(i)
    \/ \E i \in Slots, exits \in BOOLEAN : uploadTaskCatch(i, exits)

JobIds ==
    {<<p, b, t, tn, c>> : p \in {"", "upload"}, b \in RequestBackends \ {"Z"},
                          t \in Types, tn \in RequestTables, c \in 0..MaxClock}

Request ==
    \/ \E type \in Types, b \in RequestBackends : createBackup(type, b)
    \/ \E b \in RequestBackends, tn \in RequestTables :
          uploadData(IF tn = "" THEN "files" ELSE "database", b, tn)
    \/ \E b \in RequestBackends : uploadData("database", b, "")
    \/ \E type \in Types : autoBackupFire(type)
    \/ \E j \in JobIds : deleteBackupStatusController(j)
    \/ \E j \in JobIds : deleteUploadStatusById(j)

(***************************************************************************)
(* Tracker specification.                                                  *)
(***************************************************************************)
TrackerOff ==
    /\ now = 0 /\ backupStatuses = {} /\ uploadStatuses = {} /\ tasks = <<>>
    /\ errorLog = {} /\ cleaned = [backup |-> 0, upload |-> 0]

UploadOff ==
    /\ remote = {} /\ remoteHasPk = TRUE /\ records = <<>> /\ up = <<>>

ReconcileOff ==
    /\ mirror = <<>> /\ mirrorExists = FALSE
    /\ hasIdColumn = TRUE /\ sourceRows = <<>> /\ rec = <<>>

CompareOff ==
    /\ remoteTables = <<>> /\ mirrorTables = <<>> /\ cmp = <<>>
    /\ bucket = <<>> /\ disk = <<>> /\ fc = <<>> /\ bf = <<>> /\ uf = <<>>
    /\ bd = <<>>

Init ==
    /\ now = 0
    /\ backupStatuses = {}
    /\ uploadStatuses = {}
    /\ tasks = <<>>
    /\ errorLog = {}
    /\ cleaned = [backup |-> 0, upload |-> 0]
    /\ ReconcileOff
    /\ UploadOff
    /\ CompareOff

Next ==
    \/ Request
    \/ TaskStep
    \/ cleanupOldStatuses
    \/ cleanupOldUploadStatuses
    \/ Tick

Spec == Init /\ [][Next]_vars

\* Every awaited call of a background task returns or throws, and the event
\* loop then runs the continuation.
FairSpec == Spec /\ WF_vars(TaskStep)


(***************************************************************************)
(* Database backup: upsertTableData called by two backup jobs for the same *)
(* page of source rows and the same mirror table.  A row is [id, v]; id is *)
(* Null when the column is NULL, and always Null when the source table has *)
(* no id column.  One step per awaited query.                              *)
(***************************************************************************)
Jobs == {1, 2}

SeqsUpTo(S, n) == UNION {[1..k -> S] : k \in 0..n}

SourceRowChoices(hasId) ==
    IF hasId
    THEN { [id |-> "1", v |-> "a"], [id |-> "1", v |-> "b"], [id |-> "2", v |-> "a"],
           [id |-> Null, v |-> "a"], [id |-> "1", v |-> "bad"] }
    ELSE { [id |-> Null, v |-> "a"], [id |-> Null, v |-> "b"], [id |-> Null, v |-> "bad"] }

\* A WHERE clause that always compares every column.
MatchesEveryColumn(m, row) == m.id = row.id /\ m.v = row.v

\* The WHERE clause of checkQuery: by id when the source has an id column and
\* the row's id is set, by every column otherwise.
Matches(m, row) ==
    IF hasIdColumn /\ row.id # Null THEN m.id = row.id
    ELSE m.id = row.id /\ m.v = row.v

\* A check query that never finds a row.
existingNone(table, row) == FALSE

\* existing && existing.length > 0
existing(table, row) == \E k \in DOMAIN table : Matches(table[k], row)

\* The error INSERT raises, if any.  The table createTableIfNotExists makes
\* carries no unique constraint on the source columns, so the only failure is
\* a value the column type rejects.
InsertError(table, row) ==
    IF row.v = "bad" THEN "invalid input syntax" ELSE Null

\* error.message includes 'duplicate', 'unique' or 'constraint'
IsDuplicateError(message) ==
    message \in {"duplicate key value violates unique constraint"}

\* The loop moves to the next row, or returns { inserted, skipped }.
NextRow(r) ==
    IF r.i >= Len(sourceRows) THEN [r EXCEPT !.pc = "done"]
    ELSE [r EXCEPT !.pc = "check", !.i = r.i + 1]

ReconcileIdle == UNCHANGED <<trackerVars, uploadVars, compareVars, filesVars, bd>>

\* upsertTableData is called; createTableIfNotExists runs CREATE TABLE IF NOT
\* EXISTS.
createTableIfNotExists(p) ==
    /\ rec[p].pc = "idle"
    /\ mirrorExists' = TRUE
    /\ rec' = [rec EXCEPT ![p].pc = "ensured",
                          ![p].before = mirror,
                          ![p].after = \A q \in Jobs \ {p} : rec[q].pc = "done"]
    /\ UNCHANGED <<mirror, hasIdColumn, sourceRows>>
    /\ ReconcileIdle

\* createTableIfNotExists counts the rows to tell whether the table is new;
\* upsertTableData returns at once for an empty page.
tableInfo(p) ==
    /\ rec[p].pc = "ensured"
    /\ rec' = [rec EXCEPT ![p].created = (Len(mirror) = 0),
                          ![p].pc = IF Len(sourceRows) = 0 THEN "done" ELSE "check",
                          ![p].i = IF Len(sourceRows) = 0 THEN 0 ELSE 1]
    /\ UNCHANGED <<mirror, mirrorExists, hasIdColumn, sourceRows>>
    /\ ReconcileIdle

\* await prisma.$queryRawUnsafe(checkQuery), then skipped++ on a match
checkRow(p) ==
    /\ rec[p].pc = "check"
    /\ rec' = [rec EXCEPT ![p] =
                  IF existing(mirror, sourceRows[rec[p].i])
                  THEN NextRow([rec[p] EXCEPT !.skipped = @ + 1])
                  ELSE [rec[p] EXCEPT !.pc = "insert"]]
    /\ UNCHANGED <<mirror, mirrorExists, hasIdColumn, sourceRows>>
    /\ ReconcileIdle

\* await prisma.$executeRawUnsafe(insertQuery), then inserted++; the catch
\* counts a constraint error as a skip and drops the row on any other error.
insertRow(p) ==
    /\ rec[p].pc = "insert"
    /\ LET row == sourceRows[rec[p].i]
           message == InsertError(mirror, row)
       IN  IF message = Null
           THEN /\ mirror' = Append(mirror, row)
                /\ rec' = [rec EXCEPT ![p] =
                              NextRow([rec[p] EXCEPT !.inserted = @ + 1,
                                                     !.added = Append(@, row)])]
           ELSE /\ mirror' = mirror
                /\ rec' = [rec EXCEPT ![p] =
                              IF IsDuplicateError(message)
                              THEN NextRow([rec[p] EXCEPT !.skipped = @ + 1])
                              ELSE NextRow(rec[p])]
    /\ UNCHANGED <<mirrorExists, hasIdColumn, sourceRows>>
    /\ ReconcileIdle

\* The mirror table is absent, empty, or holds a row of an earlier backup.
InitReconcile ==
    /\ hasIdColumn \in BOOLEAN
    /\ sourceRows \in SeqsUpTo(SourceRowChoices(hasIdColumn), MaxRows)
    /\ mirrorExists \in BOOLEAN
    /\ mirror \in IF mirrorExists
                  THEN {<<>>, <<[id |-> IF hasIdColumn THEN "1" ELSE Null, v |-> "b"]>>}
                  ELSE {<<>>}
    /\ rec = [p \in Jobs |->
                [pc |-> "idle", i |-> 0, inserted |-> 0, skipped |-> 0,
                 created |-> FALSE, before |-> <<>>, after |-> FALSE,
                 added |-> <<>>]]
    /\ TrackerOff
    /\ UploadOff
    /\ CompareOff

NextReconcile ==
    \/ \E p \in Jobs : createTableIfNotExists(p)
    \/ \E p \in Jobs : tableInfo(p)
    \/ \E p \in Jobs : checkRow(p)
    \/ \E p \in Jobs : insertRow(p)

SpecReconcile == InitReconcile /\ [][NextReconcile]_vars

(***************************************************************************)
(* Database upload: uploadTableRecords called repeatedly with the same     *)
(* mirror rows against one remote table.  A mirror row carries the columns *)
(* id and v and the two bookkeeping columns of the mirror.                 *)
(***************************************************************************)
RemoteColumns == {"id", "v"}

MirrorRow(id, v) ==
    [id |-> id, v |-> v, backup_created_at |-> "t", backup_updated_at |-> "t"]

RecordChoices ==
    { MirrorRow("1", "a"), MirrorRow("1", "b"), MirrorRow("2", "a"), MirrorRow(Null, "a") }

\* cleanRecord: the record without backup_created_at and backup_updated_at
CleanRecord(record) ==
    [c \in DOMAIN record \ {"backup_created_at", "backup_updated_at"} |-> record[c]]

\* pkResult.rows.length > 0 ? pkResult.rows[0].attname : 'id'
primaryKey == "id"

\* The error of INSERT ... ON CONFLICT ("id") DO UPDATE, if any.
UpsertError(clean) ==
    IF ~remoteHasPk THEN "no unique constraint matching the ON CONFLICT specification"
    ELSE IF DOMAIN clean \ RemoteColumns # {} THEN "column does not exist"
    ELSE IF clean[primaryKey] = Null THEN "null value violates not-null constraint"
    ELSE Null

\* INSERT ... ON CONFLICT ("id") DO UPDATE SET col = EXCLUDED.col, ...
Upsert(table, clean) ==
    LET old == {r \in table : r[primaryKey] = clean[primaryKey]}
        row == [c \in RemoteColumns |->
                   IF c \in DOMAIN clean THEN clean[c]
                   ELSE IF old # {} THEN (CHOOSE r \in old : TRUE)[c]
                   ELSE Null]
    IN  (table \ old) \cup {row}

\* SELECT COUNT(*) ... WHERE "id" = $1
CountByKey(table, key) == Cardinality({r \in table : r[primaryKey] = key})

\* A loop that gives up after the first failed record.
NextRecordUntilError(u) ==
    IF u.i >= Len(records) \/ u.errors # <<>> THEN [u EXCEPT !.pc = "done"]
    ELSE [u EXCEPT !.pc = "upsert", !.i = u.i + 1]

\* The loop moves to the next record, or returns the counters.
NextRecord(u) ==
    IF u.i >= Len(records) THEN [u EXCEPT !.pc = "done"]
    ELSE [u EXCEPT !.pc = "upsert", !.i = u.i + 1]

UploadIdle == UNCHANGED <<trackerVars, reconcileVars, compareVars, filesVars, bd>>

\* uploadTableRecords is called: connect, return zeros for no records, else
\* read the columns and the primary key.
uploadTableRecords ==
    /\ up.pc = "idle"
    /\ up' = [up EXCEPT !.pc = IF Len(records) = 0 THEN "done" ELSE "upsert",
                        !.i = IF Len(records) = 0 THEN 0 ELSE 1,
                        !.uploadedCount = 0, !.matchedCount = 0,
                        !.errors = <<>>, !.ok = {}, !.before = remote]
    /\ UNCHANGED <<remote, remoteHasPk, records>>
    /\ UploadIdle

\* await client.query(insertQuery, ...); the catch records the failed record
upsertRecord ==
    /\ up.pc = "upsert"
    /\ LET record == records[up.i]
           clean == CleanRecord(record)
           message == UpsertError(clean)
       IN  IF message = Null
           THEN /\ remote' = Upsert(remote, clean)
                /\ up' = [up EXCEPT !.pc = "count"]
           ELSE /\ remote' = remote
                /\ up' = NextRecord([up EXCEPT !.errors = Append(@,
                             [record |-> IF record[primaryKey] = Null THEN "unknown"
                                         ELSE record[primaryKey],
                              error |-> message])])
    /\ UNCHANGED <<remoteHasPk, records>>
    /\ UploadIdle

\* await client.query(checkQuery, ...): the key is counted after the write
countRecord ==
    /\ up.pc = "count"
    /\ up' = NextRecord(
                IF CountByKey(remote, records[up.i][primaryKey]) > 0
                THEN [up EXCEPT !.matchedCount = @ + 1, !.ok = @ \cup {up.i}]
                ELSE [up EXCEPT !.uploadedCount = @ + 1, !.ok = @ \cup {up.i}])
    /\ UNCHANGED <<remote, remoteHasPk, records>>
    /\ UploadIdle

\* The same records are uploaded again.
uploadAgain ==
    /\ up.pc = "done"
    /\ up.run < MaxRuns
    /\ up' = [up EXCEPT !.pc = "idle", !.run = @ + 1,
                        !.first = IF up.run = 1
                                  THEN [uploadedRecords |-> up.uploadedCount,
                                        matchedRecords |-> up.matchedCount,
                                        ok |-> up.ok, before |-> up.before]
                                  ELSE @]
    /\ UNCHANGED <<remote, remoteHasPk, records>>
    /\ UploadIdle

\* The remote table is empty or holds a row with key 1.
InitUpload ==
    /\ remoteHasPk \in BOOLEAN
    /\ remote \in {{}, {[id |-> "1", v |-> "r"]}}
    /\ records \in SeqsUpTo(RecordChoices, MaxRecords)
    /\ up = [run |-> 1, pc |-> "idle", i |-> 0, uploadedCount |-> 0,
             matchedCount |-> 0, errors |-> <<>>, ok |-> {}, before |-> {},
             first |-> [uploadedRecords |-> 0, matchedRecords |-> 0,
                        ok |-> {}, before |-> {}]]
    /\ TrackerOff
    /\ ReconcileOff
    /\ CompareOff

NextUpload ==
    \/ uploadTableRecords
    \/ upsertRecord
    \/ countRecord
    \/ uploadAgain

SpecUpload == InitUpload /\ [][NextUpload]_vars

(***************************************************************************)
(* Database comparison: compareBackupWithRemote.  A table name is the      *)
(* sequence of its parts between underscores (backup_user_settings is      *)
(* <<"backup", "user", "settings">>), all in lower case; a remote table is *)
(* the set of its ids, a mirror table the sequence of its ids (the mirror  *)
(* may hold an id more than once).  Every compared table has an id column. *)
(***************************************************************************)
Ids == 1..MaxId

RemoteNames == { <<"t">>, <<"user", "settings">>, <<"settings">> }

\* backup_statuses is the local tracker table; LIKE 'backup_%' always finds it.
MirrorNames ==
    { <<"backup", "t">>, <<"backup", "gone">>, <<"backup", "user", "settings">>,
      <<"backup", "settings">> }

\* missingIds.slice(0, 100)
MissingCap == 100

internalTables == { <<"settings">>, <<"backup", "statuses">> }

\* name.startsWith('backup_')
StartsWithBackup(name) == Len(name) > 1 /\ name[1] = "backup"

\* name.replace(/^backup_/i, '')
StripFirstPrefix(name) == IF StartsWithBackup(name) THEN Tail(name) ELSE name

\* getBaseTableName: every leading backup_ removed
RECURSIVE getBaseTableName(_)
getBaseTableName(name) ==
    IF StartsWithBackup(name) THEN getBaseTableName(Tail(name)) ELSE name

isInternalTable(name) == getBaseTableName(name) \in internalTables

\* name.includes(part), on whole parts of the name
Includes(name, part) ==
    \E i \in 1..Len(name) :
        i + Len(part) - 1 <= Len(name) /\ SubSeq(name, i, i + Len(part) - 1) = part

\* The filter on the names of information_schema.tables LIKE 'backup_%'.
KeptBackupTable(name) ==
    /\ name \notin { <<"backup", "statuses">>, <<"backup", "backup", "statuses">>,
                     <<"backup", "settings">> }
    /\ ~isInternalTable(getBaseTableName(name))
    /\ StripFirstPrefix(name) \notin { <<"settings">>, <<"backup", "statuses">> }
    /\ ~isInternalTable(StripFirstPrefix(name))

\* The skip tests at the head of the second loop.
SkippedInSecondLoop(name) ==
    \/ name \in { <<"backup", "statuses">>, <<"backup", "backup", "statuses">>,
                  <<"backup", "settings">> }
    \/ Includes(name, <<"backup", "statuses">>)
    \/ (Includes(name, <<"settings">>) /\ ~Includes(name, <<"backup", "settings">>))
    \/ getBaseTableName(name) \in { <<"settings">>, <<"backup", "statuses">> }
    \/ StripFirstPrefix(name) \in { <<"settings">>, <<"backup", "statuses">> }
    \/ isInternalTable(getBaseTableName(name))
    \/ isInternalTable(StripFirstPrefix(name))

\* A set of names as the list a query returns.
RECURSIVE Listed(_)
Listed(S) ==
    IF S = {} THEN <<>>
    ELSE LET x == CHOOSE y \in S : TRUE IN <<x>> \o Listed(S \ {x})

\* A set of ids in id order.
RECURSIVE InIdOrder(_)
InIdOrder(S) ==
    IF S = {} THEN <<>>
    ELSE LET x == CHOOSE y \in S : \A z \in S : y <= z IN <<x>> \o InIdOrder(S \ {x})

Range(q) == {q[k] : k \in DOMAIN q}

First(q, n) == SubSeq(q, 1, IF Len(q) < n THEN Len(q) ELSE n)

\* Math.round((backupCount / remoteCount) * 100)
RoundedPercent(backupCount, remoteCount) ==
    (200 * backupCount + remoteCount) \div (2 * remoteCount)

\* progress of a table that has a mirror
Progress(backupCount, remoteCount) ==
    IF remoteCount > 0 THEN RoundedPercent(backupCount, remoteCount)
    ELSE IF backupCount > 0 THEN 100 ELSE 0

\* tableStatus of a table that has a mirror
TableStatus(progress) ==
    IF progress = 100 THEN "fully_backed_up"
    ELSE IF progress > 0 THEN "partially_backed_up"
    ELSE "not_backed_up"

\* findMissingRecords: the remote ids without a mirror row, in id order
findMissingRecords(remoteIds, backupIds) ==
    LET missingIds == InIdOrder(remoteIds \ Range(backupIds))
    IN  [ids |-> missingIds, totalMissing |-> Len(missingIds)]

Bump(summary, status) ==
    IF status = "fully_backed_up" THEN [summary EXCEPT !.fullyBackedUp = @ + 1]
    ELSE IF status = "partially_backed_up"
    THEN [summary EXCEPT !.partiallyBackedUp = @ + 1]
    ELSE [summary EXCEPT !.notBackedUp = @ + 1]

CompareIdle == UNCHANGED <<trackerVars, reconcileVars, uploadVars, filesVars, bd>>

\* compareBackupWithRemote up to its first loop: the remote tables with their
\* counts and the backup tables, both without the internal ones.
compareStart ==
    /\ cmp.pc = "idle"
    /\ cmp' = [cmp EXCEPT
                  !.pc = "remote",
                  !.remoteTableNames =
                      Listed({n \in DOMAIN remoteTables : ~isInternalTable(n)}),
                  !.backupTableNames =
                      Listed({n \in DOMAIN mirrorTables : KeptBackupTable(n)})]
    /\ UNCHANGED <<remoteTables, mirrorTables>>
    /\ CompareIdle

\* One round of the loop over the remote tables.
compareRemoteTable ==
    /\ cmp.pc = "remote"
    /\ cmp.i < Len(cmp.remoteTableNames)
    /\ LET remoteTableName == cmp.remoteTableNames[cmp.i + 1]
           remoteCount == Cardinality(remoteTables[remoteTableName])
           backupTableName == <<"backup">> \o remoteTableName
           existsInBackup == backupTableName \in Range(cmp.backupTableNames)
           backupCount == IF existsInBackup THEN Len(mirrorTables[backupTableName]) ELSE 0
           progress == IF existsInBackup THEN Progress(backupCount, remoteCount) ELSE 0
           tableStatus == IF existsInBackup THEN TableStatus(progress) ELSE "not_backed_up"
           missingData ==
               IF existsInBackup /\ remoteCount > backupCount /\ remoteCount > 0
               THEN findMissingRecords(remoteTables[remoteTableName],
                                       mirrorTables[backupTableName])
               ELSE [ids |-> <<>>, totalMissing |-> 0]
           entry == [tableName |-> remoteTableName,
                     backupTableName |-> IF existsInBackup THEN backupTableName ELSE <<>>,
                     remoteCount |-> remoteCount,
                     backupCount |-> backupCount,
                     difference |-> remoteCount - backupCount,
                     progress |-> progress,
                     status |-> tableStatus,
                     missingRecordsCount |-> missingData.totalMissing,
                     missingRecordsIds |-> First(missingData.ids, MissingCap)]
       IN  cmp' = [cmp EXCEPT
                      !.i = @ + 1,
                      !.tablesComparison = Append(@, entry),
                      !.missingInBackup =
                          IF existsInBackup THEN @ ELSE Append(@, remoteTableName),
                      !.summary = Bump(@, tableStatus)]
    /\ UNCHANGED <<remoteTables, mirrorTables>>
    /\ CompareIdle

\* The first loop is over; the second one starts.
compareTurn ==
    /\ cmp.pc = "remote"
    /\ cmp.i >= Len(cmp.remoteTableNames)
    /\ cmp' = [cmp EXCEPT !.pc = "backup", !.i = 0]
    /\ UNCHANGED <<remoteTables, mirrorTables>>
    /\ CompareIdle

\* One round of the loop over the backup tables.
compareBackupTable ==
    /\ cmp.pc = "backup"
    /\ cmp.i < Len(cmp.backupTableNames)
    /\ LET backupTableName == cmp.backupTableNames[cmp.i + 1]
           originalTableName == StripFirstPrefix(backupTableName)
           reported == /\ ~SkippedInSecondLoop(backupTableName)
                       /\ originalTableName \notin Range(cmp.remoteTableNames)
       IN  cmp' = [cmp EXCEPT
                      !.i = @ + 1,
                      !.missingInRemote =
                          IF reported
                          THEN Append(@, [tableName |-> originalTableName,
                                          backupTableName |-> backupTableName,
                                          backupCount |-> Len(mirrorTables[backupTableName]),
                                          remoteCount |-> 0])
                          ELSE @,
                      !.summary = IF reported THEN [@ EXCEPT !.missingInRemote = @ + 1]
                                  ELSE @]
    /\ UNCHANGED <<remoteTables, mirrorTables>>
    /\ CompareIdle

\* return comparison
compareReturn ==
    /\ cmp.pc = "backup"
    /\ cmp.i >= Len(cmp.backupTableNames)
    /\ cmp' = [cmp EXCEPT !.pc = "done"]
    /\ UNCHANGED <<remoteTables, mirrorTables>>
    /\ CompareIdle

\* Mirror rows in id order, an id possibly more than once.
MirrorRowChoices ==
    {q \in SeqsUpTo(Ids, MaxMirrorRows) : \A k \in 1..(Len(q) - 1) : q[k] <= q[k + 1]}

\* Any of the remote tables and of the backup tables may exist; table t and
\* its mirror hold any rows, the other tables one row.
InitCompare ==
    /\ \E names \in SUBSET RemoteNames, rows \in SUBSET Ids :
          remoteTables = [n \in names |-> IF n = <<"t">> THEN rows ELSE {1}]
    /\ \E names \in SUBSET MirrorNames, rows \in MirrorRowChoices :
          mirrorTables = [n \in names \cup {<<"backup", "statuses">>} |->
                             IF n = <<"backup", "t">> THEN rows ELSE <<1>>]
    /\ cmp = [pc |-> "idle", i |-> 0, remoteTableNames |-> <<>>,
              backupTableNames |-> <<>>, tablesComparison |-> <<>>,
              missingInBackup |-> <<>>, missingInRemote |-> <<>>,
              summary |-> [fullyBackedUp |-> 0, partiallyBackedUp |-> 0,
                           notBackedUp |-> 0, missingInRemote |-> 0]]
    /\ TrackerOff
    /\ ReconcileOff
    /\ UploadOff
    /\ bucket = <<>> /\ disk = <<>> /\ fc = <<>> /\ bf = <<>> /\ uf = <<>>
    /\ bd = <<>>

NextCompare ==
    \/ compareStart
    \/ compareRemoteTable
    \/ compareTurn
    \/ compareBackupTable
    \/ compareReturn

SpecCompare == InitCompare /\ [][NextCompare]_vars

(***************************************************************************)
(* Files.  A key is the sequence of the parts of a path (d/a is            *)
(* <<"d", "a">>).  The bucket is the list of files its listing returns,    *)
(* the local tree a function from the paths of its files to their sizes.   *)
(***************************************************************************)
FileKeys == { <<"a">>, <<"d", "a">> }

BucketFiles == [key : FileKeys, size : 0..MaxSize]

\* What a listing of the bucket can return.
Listings == SeqsUpTo(BucketFiles, MaxListing)

\* What the local tree can hold.
Trees == UNION { [keys -> 0..MaxSize] : keys \in SUBSET FileKeys }

IsRootFile(file) == Len(file.key) = 1
IsFolderFile(file) == Len(file.key) > 1

\* organizeFilesByFolder followed by a traversal of the structure: the files
\* of the root, then those of the folders.
Organized(files) == SelectSeq(files, IsRootFile) \o SelectSeq(files, IsFolderFile)

\* getAllFiles
getAllFiles == Organized(bucket)

\* getLocalBackupFiles: the files found by scanning the tree
getLocalBackupFiles ==
    LET keys == Listed(DOMAIN disk)
    IN  Organized([k \in 1..Len(keys) |-> [key |-> keys[k], size |-> disk[keys[k]]]])

MapHas(fileMap, key) == \E k \in DOMAIN fileMap : fileMap[k].key = key

MapGet(fileMap, key) == fileMap[CHOOSE k \in DOMAIN fileMap : fileMap[k].key = key]

\* fileMap.set(key, file): a known key keeps its place and takes the new file
MapSet(fileMap, file) ==
    IF MapHas(fileMap, file.key)
    THEN [k \in DOMAIN fileMap |->
             IF fileMap[k].key = file.key THEN file ELSE fileMap[k]]
    ELSE Append(fileMap, file)

RECURSIVE flattenFiles(_)
flattenFiles(files) ==
    IF files = <<>> THEN <<>>
    ELSE MapSet(flattenFiles(SubSeq(files, 1, Len(files) - 1)), files[Len(files)])

FilesIdle == UNCHANGED <<trackerVars, reconcileVars, uploadVars, compareVars, bd>>

SizeMatchAlways(bucketFile, localFile) == TRUE

\* sizeMatch
SizeMatch(bucketFile, localFile) == bucketFile.size = localFile.size

\* compareBackupFiles up to its first loop: both trees flattened.
compareFilesStart ==
    /\ fc.pc = "idle"
    /\ fc' = [fc EXCEPT
                 !.pc = "bucket",
                 !.bucketFileMap = flattenFiles(getAllFiles),
                 !.localFileMap = flattenFiles(getLocalBackupFiles),
                 !.summary = [@ EXCEPT
                     !.totalBucketFiles = Len(flattenFiles(getAllFiles)),
                     !.totalLocalFiles = Len(flattenFiles(getLocalBackupFiles))]]
    /\ UNCHANGED <<bucket, disk, bf, uf>>
    /\ FilesIdle

\* One round of the loop over the bucket files.
compareBucketFile ==
    /\ fc.pc = "bucket"
    /\ fc.i < Len(fc.bucketFileMap)
    /\ LET bucketFile == fc.bucketFileMap[fc.i + 1]
           key == bucketFile.key
       IN  IF ~MapHas(fc.localFileMap, key)
           THEN fc' = [fc EXCEPT
                          !.i = @ + 1,
                          !.summary = [@ EXCEPT !.missingInLocal = @ + 1],
                          !.missingInLocal =
                              Append(@, [key |-> key, size |-> bucketFile.size])]
           ELSE LET localFile == MapGet(fc.localFileMap, key)
                IN  IF SizeMatch(bucketFile, localFile)
                    THEN fc' = [fc EXCEPT
                                   !.i = @ + 1,
                                   !.summary = [@ EXCEPT !.matchingFiles = @ + 1],
                                   !.matchingFiles =
                                       Append(@, [key |-> key, size |-> bucketFile.size])]
                    ELSE fc' = [fc EXCEPT
                                   !.i = @ + 1,
                                   !.summary = [@ EXCEPT !.differentFiles = @ + 1],
                                   !.differentFiles =
                                       Append(@, [key |-> key,
                                                  bucketSize |-> bucketFile.size,
                                                  localSize |-> localFile.size])]
    /\ UNCHANGED <<bucket, disk, bf, uf>>
    /\ FilesIdle

\* The first loop is over; the second one starts.
compareFilesTurn ==
    /\ fc.pc = "bucket"
    /\ fc.i >= Len(fc.bucketFileMap)
    /\ fc' = [fc EXCEPT !.pc = "local", !.i = 0]
    /\ UNCHANGED <<bucket, disk, bf, uf>>
    /\ FilesIdle

\* One round of the loop over the local files.
compareLocalFile ==
    /\ fc.pc = "local"
    /\ fc.i < Len(fc.localFileMap)
    /\ LET localFile == fc.localFileMap[fc.i + 1]
       IN  IF ~MapHas(fc.bucketFileMap, localFile.key)
           THEN fc' = [fc EXCEPT
                          !.i = @ + 1,
                          !.summary = [@ EXCEPT !.missingInBucket = @ + 1],
                          !.missingInBucket =
                              Append(@, [key |-> localFile.key, size |-> localFile.size])]
           ELSE fc' = [fc EXCEPT !.i = @ + 1]
    /\ UNCHANGED <<bucket, disk, bf, uf>>
    /\ FilesIdle

\* return comparison
compareFilesReturn ==
    /\ fc.pc = "local"
    /\ fc.i >= Len(fc.localFileMap)
    /\ fc' = [fc EXCEPT !.pc = "done"]
    /\ UNCHANGED <<bucket, disk, bf, uf>>
    /\ FilesIdle

\* Any listing of the bucket against any local tree.
InitCompareFiles ==
    /\ bucket \in Listings
    /\ disk \in Trees
    /\ fc = [pc |-> "idle", i |-> 0, bucketFileMap |-> <<>>, localFileMap |-> <<>>,
             missingInLocal |-> <<>>, missingInBucket |-> <<>>,
             matchingFiles |-> <<>>, differentFiles |-> <<>>,
             summary |-> [totalBucketFiles |-> 0, totalLocalFiles |-> 0,
                          missingInLocal |-> 0, missingInBucket |-> 0,
                          matchingFiles |-> 0, differentFiles |-> 0]]
    /\ bf = <<>> /\ uf = <<>>
    /\ remoteTables = <<>> /\ mirrorTables = <<>> /\ cmp = <<>> /\ bd = <<>>
    /\ TrackerOff
    /\ ReconcileOff
    /\ UploadOff

NextCompareFiles ==
    \/ compareFilesStart
    \/ compareBucketFile
    \/ compareFilesTurn
    \/ compareLocalFile
    \/ compareFilesReturn

SpecCompareFiles == InitCompareFiles /\ [][NextCompareFiles]_vars

(***************************************************************************)
(* backupFiles: every file of the bucket that has no local file is         *)
(* downloaded, by downloadFileFromS3 when the backend has object-store     *)
(* credentials and by downloadFileFromHttp otherwise.                      *)
(***************************************************************************)
\* The local tree after a file of the given size is written at the key.
Written(key, size) ==
    [k \in DOMAIN disk \cup {key} |-> IF k = key THEN size ELSE disk[k]]

CurrentFile == bf.files[bf.i + 1]

\* The loop of processFolder stands at a file; exists tells whether
\* fs.access(filePath) succeeds.
AtFile(exists) ==
    /\ bf.pc = "files"
    /\ bf.i < Len(bf.files)
    /\ (CurrentFile.key \in DOMAIN disk) = exists

\* backupFiles up to the first file.
backupFilesStart ==
    /\ bf.pc \in {"idle", "done", "stalled"}
    /\ bf.run < MaxRuns
    /\ bf' = [bf EXCEPT !.pc = "files", !.run = @ + 1, !.files = getAllFiles,
                        !.i = 0, !.totalFiles = 0, !.downloadedFiles = 0,
                        !.skippedFiles = 0, !.errors = <<>>]
    /\ UNCHANGED <<bucket, disk, fc, uf>>
    /\ FilesIdle

\* fs.access succeeds: skippedFiles++; continue
backupFileSkip ==
    /\ AtFile(TRUE)
    /\ bf' = [bf EXCEPT !.i = @ + 1, !.totalFiles = @ + 1, !.skippedFiles = @ + 1]
    /\ UNCHANGED <<bucket, disk, fc, uf>>
    /\ FilesIdle

\* The download succeeds: the whole file is written.
backupFileDownloaded ==
    /\ AtFile(FALSE)
    /\ disk' = Written(CurrentFile.key, CurrentFile.size)
    /\ bf' = [bf EXCEPT !.i = @ + 1, !.totalFiles = @ + 1, !.downloadedFiles = @ + 1]
    /\ UNCHANGED <<bucket, fc, uf>>
    /\ FilesIdle

\* The download fails before anything stays on disk: GetObject fails, or the
\* server answers other than 200 or the request fails and the file that
\* createWriteStream opened is unlinked.  On the HTTP path the catch around
\* downloadFileFromHttp pushes an error and the test of downloaded pushes
\* another.
backupFileFailed ==
    /\ AtFile(FALSE)
    /\ bf' = [bf EXCEPT !.i = @ + 1, !.totalFiles = @ + 1,
                        !.errors = IF bf.s3 THEN Append(@, CurrentFile.key)
                                   ELSE @ \o <<CurrentFile.key, CurrentFile.key>>]
    /\ UNCHANGED <<bucket, disk, fc, uf>>
    /\ FilesIdle

\* downloadFileFromS3 when fs.writeFile fails after a part of the buffer is
\* on disk: it returns false and the part stays.
backupFileTruncated ==
    /\ AtFile(FALSE)
    /\ bf.s3
    /\ \E part \in 0..(CurrentFile.size - 1) :
          disk' = Written(CurrentFile.key, part)
    /\ bf' = [bf EXCEPT !.i = @ + 1, !.totalFiles = @ + 1,
                        !.errors = Append(@, CurrentFile.key)]
    /\ UNCHANGED <<bucket, fc, uf>>
    /\ FilesIdle

\* downloadFileFromHttp when the answer is 200 and the body breaks off: the
\* write stream never finishes, the promise is never settled and the part
\* that was piped stays on disk.
backupFileStalled ==
    /\ AtFile(FALSE)
    /\ ~bf.s3
    /\ \E part \in 0..(CurrentFile.size - 1) :
          disk' = Written(CurrentFile.key, part)
    /\ bf' = [bf EXCEPT !.pc = "stalled", !.totalFiles = @ + 1]
    /\ UNCHANGED <<bucket, fc, uf>>
    /\ FilesIdle

\* return { success: true, totalFiles, downloadedFiles, skippedFiles, errors }
backupFilesReturn ==
    /\ bf.pc = "files"
    /\ bf.i >= Len(bf.files)
    /\ bf' = [bf EXCEPT
                 !.pc = "done",
                 !.results = Append(@, [run |-> bf.run,
                                        totalFiles |-> bf.totalFiles,
                                        downloadedFiles |-> bf.downloadedFiles,
                                        skippedFiles |-> bf.skippedFiles,
                                        errors |-> bf.errors])]
    /\ UNCHANGED <<bucket, disk, fc, uf>>
    /\ FilesIdle

\* A bucket lists each of its keys once, and no file is empty.
BucketListings ==
    {l \in Listings :
        /\ \A j, k \in DOMAIN l : j # k => l[j].key # l[k].key
        /\ \A k \in DOMAIN l : l[k].size > 0}

\* backupFiles is called again and again on one bucket and a backup path that
\* starts empty; the backend has object-store credentials or has none.
InitBackupFiles ==
    /\ bucket \in BucketListings
    /\ disk = <<>>
    /\ \E s3 \in BOOLEAN :
          bf = [pc |-> "idle", run |-> 0, s3 |-> s3, files |-> <<>>, i |-> 0,
                totalFiles |-> 0, downloadedFiles |-> 0, skippedFiles |-> 0,
                errors |-> <<>>, results |-> <<>>]
    /\ fc = <<>> /\ uf = <<>>
    /\ remoteTables = <<>> /\ mirrorTables = <<>> /\ cmp = <<>> /\ bd = <<>>
    /\ TrackerOff
    /\ ReconcileOff
    /\ UploadOff

NextBackupFiles ==
    \/ backupFilesStart
    \/ backupFileSkip
    \/ backupFileDownloaded
    \/ backupFileFailed
    \/ backupFileTruncated
    \/ backupFileStalled
    \/ backupFilesReturn

SpecBackupFiles == InitBackupFiles /\ [][NextBackupFiles]_vars

(***************************************************************************)
(* The files upload job: processUploadInBackground with type 'files', and  *)
(* uploadFiles.  The writes of the job's status succeed here.              *)
(***************************************************************************)
CredentialNames == {"S3_REGION", "AWS_ACCESS_KEY_ID", "AWS_SECRET_ACCESS_KEY"}

BucketUrls == {"", "http://store/bucket", "store/bucket"}

\* bucketUrl.startsWith('http')
StartsWithHttp(bucketUrl) == bucketUrl = "http://store/bucket"

\* hasS3Credentials
hasS3Credentials(attributes) == CredentialNames \subseteq attributes

\* getAllFilesFromLocal
getAllFilesFromLocal == getLocalBackupFiles

\* The files branch when the setting has no bucket URL.
uploadFilesNoBucket ==
    /\ uf.pc = "start"
    /\ uf.bucketurl = ""
    /\ uf' = [uf EXCEPT !.pc = "done", !.status = "failed",
                        !.error = "Bucket URL not configured for this backend"]
    /\ UNCHANGED <<bucket, disk, fc, bf>>
    /\ FilesIdle

\* The two progress writes, and uploadFiles up to the local listing.
uploadFilesRead ==
    /\ uf.pc = "start"
    /\ uf.bucketurl # ""
    /\ uf' = [uf EXCEPT !.pc = "listed", !.progress = 30,
                        !.localFiles = getAllFilesFromLocal]
    /\ UNCHANGED <<bucket, disk, fc, bf>>
    /\ FilesIdle

\* localFiles.length === 0: uploadFiles returns zeros at once
uploadFilesEmpty ==
    /\ uf.pc = "listed"
    /\ uf.localFiles = <<>>
    /\ uf' = [uf EXCEPT !.pc = "returned",
                        !.result = [totalFiles |-> 0, uploadedFiles |-> 0,
                                    errors |-> <<>>]]
    /\ UNCHANGED <<bucket, disk, fc, bf>>
    /\ FilesIdle

\* No client can be made: uploadFiles throws.
uploadFilesNoCredentials ==
    /\ uf.pc = "listed"
    /\ uf.localFiles # <<>>
    /\ ~(hasS3Credentials(uf.attributes) /\ StartsWithHttp(uf.bucketurl))
    /\ uf' = [uf EXCEPT
                 !.pc = "thrown",
                 !.error = "Failed to upload files: S3 credentials not available for file upload"]
    /\ UNCHANGED <<bucket, disk, fc, bf>>
    /\ FilesIdle

\* One round of the loop over the local files: PutObject succeeds or fails.
uploadFilePut(sent) ==
    /\ uf.pc = "listed"
    /\ uf.localFiles # <<>>
    /\ hasS3Credentials(uf.attributes) /\ StartsWithHttp(uf.bucketurl)
    /\ uf.i < Len(uf.localFiles)
    /\ LET file == uf.localFiles[uf.i + 1]
       IN  /\ bucket' = IF sent THEN MapSet(bucket, file) ELSE bucket
           /\ uf' = [uf EXCEPT
                        !.i = @ + 1,
                        !.uploadedCount = IF sent THEN @ + 1 ELSE @,
                        !.errors = IF sent THEN @ ELSE Append(@, file.key)]
    /\ UNCHANGED <<disk, fc, bf>>
    /\ FilesIdle

\* return { totalFiles, uploadedFiles, matchedFiles, errors }
uploadFilesReturn ==
    /\ uf.pc = "listed"
    /\ uf.localFiles # <<>>
    /\ hasS3Credentials(uf.attributes) /\ StartsWithHttp(uf.bucketurl)
    /\ uf.i >= Len(uf.localFiles)
    /\ uf' = [uf EXCEPT !.pc = "returned",
                        !.result = [totalFiles |-> Len(uf.localFiles),
                                    uploadedFiles |-> uf.uploadedCount,
                                    errors |-> uf.errors]]
    /\ UNCHANGED <<bucket, disk, fc, bf>>
    /\ FilesIdle

\* uploadFiles returned: the job is completed with its result.
uploadFilesComplete ==
    /\ uf.pc = "returned"
    /\ uf' = [uf EXCEPT !.pc = "done", !.status = "completed", !.progress = 100]
    /\ UNCHANGED <<bucket, disk, fc, bf>>
    /\ FilesIdle

\* The catch of processUploadInBackground.
uploadFilesCatch ==
    /\ uf.pc = "thrown"
    /\ uf' = [uf EXCEPT !.pc = "done", !.status = "failed"]
    /\ UNCHANGED <<bucket, disk, fc, bf>>
    /\ FilesIdle

\* A files upload job has been created for a backend with any local tree,
\* any of the three credentials and any bucket URL; the bucket is empty.
InitUploadFiles ==
    /\ bucket = <<>>
    /\ disk \in Trees
    /\ \E attributes \in SUBSET CredentialNames, bucketurl \in BucketUrls :
          uf = [pc |-> "start", status |-> "processing", progress |-> 0,
                error |-> Null, attributes |-> attributes, bucketurl |-> bucketurl,
                localFiles |-> <<>>, i |-> 0, uploadedCount |-> 0, errors |-> <<>>,
                result |-> [totalFiles |-> 0, uploadedFiles |-> 0, errors |-> <<>>]]
    /\ fc = <<>> /\ bf = <<>>
    /\ remoteTables = <<>> /\ mirrorTables = <<>> /\ cmp = <<>> /\ bd = <<>>
    /\ TrackerOff
    /\ ReconcileOff
    /\ UploadOff

NextUploadFiles ==
    \/ uploadFilesNoBucket
    \/ uploadFilesRead
    \/ uploadFilesEmpty
    \/ uploadFilesNoCredentials
    \/ \E sent \in BOOLEAN : uploadFilePut(sent)
    \/ uploadFilesReturn
    \/ uploadFilesComplete
    \/ uploadFilesCatch

SpecUploadFiles == InitUploadFiles /\ [][NextUploadFiles]_vars

(***************************************************************************)
(* backupDatabase: every table of the remote database is read page by page *)
(* and each page is handed to upsertTableData.  The tables are those of    *)
(* the comparison (remoteTables, mirrorTables); a name part may hold a     *)
(* character outside [A-Za-z0-9_].  PageLimit stands for the limit of      *)
(* 1000 rows.                                                              *)
(***************************************************************************)
SourceNames == { <<"t">>, <<"a-b">>, <<"ab">> }

\* tableName.replace(/[^a-zA-Z0-9_]/g, '')
Sanitized(name) == [k \in DOMAIN name |-> IF name[k] = "a-b" THEN "ab" ELSE name[k]]

\* SELECT * FROM "<table>" LIMIT limit OFFSET (page - 1) * limit
PageRows(table, page) ==
    LET rows == InIdOrder(remoteTables[table])
        last == IF page * PageLimit < Len(rows) THEN page * PageLimit ELSE Len(rows)
    IN  SubSeq(rows, (page - 1) * PageLimit + 1, last)

NextPageSkipping(page) == page + 2

\* page++
NextPage(page) == page + 1

CurrentTable == bd.tableNames[bd.i]

\* The statements sent so far and those built now for the table name.
Sent(kinds, name) == bd.sent \cup {[statement |-> k, table |-> name] : k \in kinds}

\* A failed table that ends the whole loop.
TableFailedAborting(b) ==
    [b EXCEPT !.results.errors = Append(@, b.tableNames[b.i]),
              !.i = Len(b.tableNames)]

\* The catch of the table loop: results.errors.push
TableFailed(b) == [b EXCEPT !.results.errors = Append(@, b.tableNames[b.i])]

\* The end of the try of the table loop: the counters of the table are added
\* to the results.
TableDone(b) ==
    [b EXCEPT !.results.processedTables = @ + 1,
              !.results.insertedRecords = @ + b.totalInserted,
              !.results.skippedRecords = @ + b.totalUpdated,
              !.results.manualCommands = Append(@, b.tableNames[b.i])]

\* for (const tableName of tableNames): the next table, or the end
NextTable(b) ==
    IF b.i >= Len(b.tableNames) THEN [b EXCEPT !.pc = "end"]
    ELSE [b EXCEPT !.pc = "columns", !.i = @ + 1, !.page = 1,
                   !.totalInserted = 0, !.totalUpdated = 0]

BackupDbIdle == UNCHANGED <<trackerVars, reconcileVars, uploadVars, filesVars, cmp>>

\* backupDatabase up to the table loop: getAllTablesWithCounts
backupDatabase ==
    /\ bd.pc = "idle"
    /\ bd' = NextTable([bd EXCEPT
                           !.tableNames = Listed(DOMAIN remoteTables),
                           !.results.totalTables = Cardinality(DOMAIN remoteTables),
                           !.before = mirrorTables])
    /\ UNCHANGED <<remoteTables, mirrorTables>>
    /\ BackupDbIdle

\* getTableColumns: the name goes to the query as a parameter
getTableColumns(throws) ==
    /\ bd.pc = "columns"
    /\ bd' = IF throws THEN NextTable(TableFailed(bd)) ELSE [bd EXCEPT !.pc = "fetch"]
    /\ UNCHANGED <<remoteTables, mirrorTables>>
    /\ BackupDbIdle

\* getTableDataPaginated reads the table of the sanitized name; it throws
\* when that table does not exist or the query fails.  An empty page ends the
\* table.
getTableDataPaginated(throws) ==
    /\ bd.pc = "fetch"
    /\ LET source == Sanitized(CurrentTable)
           b == [bd EXCEPT !.sent = Sent({"count", "select"}, source)]
       IN  IF throws \/ source \notin DOMAIN remoteTables
           THEN bd' = NextTable(TableFailed(b))
           ELSE LET data == PageRows(source, bd.page)
                    c == [b EXCEPT !.data = data,
                                   !.log = Append(@, <<"fetch", CurrentTable, bd.page>>)]
                IN  bd' = IF data = <<>> THEN NextTable(TableDone(c))
                          ELSE [c EXCEPT !.pc = "upsert"]
    /\ UNCHANGED <<remoteTables, mirrorTables>>
    /\ BackupDbIdle

\* upsertTableData on the page: createTableIfNotExists, then every row is
\* looked up by id and inserted when it is not there.  It throws when the
\* table cannot be created.  A page shorter than the limit ends the table.
upsertPage(throws) ==
    /\ bd.pc = "upsert"
    /\ LET backupTableName == <<"backup">> \o CurrentTable
           old == IF backupTableName \in DOMAIN mirrorTables
                  THEN mirrorTables[backupTableName] ELSE <<>>
           IsNew(id) == id \notin Range(old)
           new == SelectSeq(bd.data, IsNew)
           b == [bd EXCEPT !.sent = Sent({"create", "exists", "count"}, backupTableName)]
           c == [b EXCEPT !.sent = @ \cup
                               {[statement |-> k, table |-> backupTableName] :
                                    k \in IF new = <<>> THEN {"check"}
                                          ELSE {"check", "insert"}},
                          !.totalInserted = @ + Len(new),
                          !.totalUpdated = @ + (Len(bd.data) - Len(new)),
                          !.found = @ + (Len(bd.data) - Len(new)),
                          !.log = Append(@, <<"upsert", CurrentTable, bd.page>>)]
       IN  IF throws
           THEN /\ bd' = NextTable(TableFailed(b))
                /\ mirrorTables' = mirrorTables
           ELSE /\ mirrorTables' =
                       [n \in DOMAIN mirrorTables \cup {backupTableName} |->
                           IF n = backupTableName THEN old \o new ELSE mirrorTables[n]]
                /\ bd' = IF Len(bd.data) < PageLimit THEN NextTable(TableDone(c))
                         ELSE [c EXCEPT !.pc = "fetch", !.page = NextPage(@)]
    /\ UNCHANGED remoteTables
    /\ BackupDbIdle

\* return results
backupDatabaseReturn ==
    /\ bd.pc = "end"
    /\ bd' = [bd EXCEPT !.pc = "done"]
    /\ UNCHANGED <<remoteTables, mirrorTables>>
    /\ BackupDbIdle

\* Any of the tables exist in the remote database, table t with any rows;
\* the mirror of t is absent or holds row 1 of an earlier backup.
InitBackupDatabase ==
    /\ \E names \in SUBSET SourceNames, rows \in SUBSET Ids :
          remoteTables = [n \in names |-> IF n = <<"t">> THEN rows ELSE {1}]
    /\ \E names \in SUBSET {<<"backup", "t">>} :
          mirrorTables = [n \in names |-> <<1>>]
    /\ bd = [pc |-> "idle", tableNames |-> <<>>, i |-> 0, page |-> 1, data |-> <<>>,
             totalInserted |-> 0, totalUpdated |-> 0,
             results |-> [totalTables |-> 0, processedTables |-> 0,
                          insertedRecords |-> 0, skippedRecords |-> 0,
                          errors |-> <<>>, manualCommands |-> <<>>],
             sent |-> {}, log |-> <<>>, before |-> <<>>, found |-> 0]
    /\ cmp = <<>>
    /\ bucket = <<>> /\ disk = <<>> /\ fc = <<>> /\ bf = <<>> /\ uf = <<>>
    /\ TrackerOff
    /\ ReconcileOff
    /\ UploadOff

NextBackupDatabase ==
    \/ backupDatabase
    \/ \E throws \in BOOLEAN : getTableColumns(throws)
    \/ \E throws \in BOOLEAN : getTableDataPaginated(throws)
    \/ \E throws \in BOOLEAN : upsertPage(throws)
    \/ backupDatabaseReturn

SpecBackupDatabase == InitBackupDatabase /\ [][NextBackupDatabase]_vars

\* The calls of backupDatabase are awaited one after another: a call that can
\* go on does go on.
FairSpecBackupDatabase == SpecBackupDatabase /\ WF_vars(NextBackupDatabase)

(***************************************************************************)
(* Properties of the job trackers.                                         *)
(***************************************************************************)
AllStatuses == backupStatuses \cup uploadStatuses

\* Patches that carry neither type nor backendName.
BarePatches ==
    { [status |-> "processing"],
      [status |-> "processing", progress |-> 30, message |-> "Fetching..."],
      [status |-> "completed", progress |-> 100, result |-> "result"],
      [status |-> "failed", error |-> "error"] }

\* C1: every job started by createBackup, uploadData or an auto-backup fire
\* eventually reaches completed or failed; no record stays in processing
\* forever.
C1_NoJobHangs == <>[](\A r \in AllStatuses : r.status \in Terminal)

\* C2: once the status of a job record is completed or failed, no later step
\* changes it, in the backup tracker and in the upload tracker.
C2_TerminalIsFinal ==
    [][ /\ \A r \in backupStatuses : r.status \in Terminal =>
              \A q \in backupStatuses' : q.jobId = r.jobId => q.status = r.status
        /\ \A r \in uploadStatuses : r.status \in Terminal =>
              \A q \in uploadStatuses' : q.jobId = r.jobId => q.status = r.status
      ]_vars

C10_SweepOnlyOldTerminal ==
    [][ /\ cleanupOldStatuses =>
              \A r \in backupStatuses :
                  r \notin backupStatuses' <=>
                      (r.status \in {"completed", "failed"}
                       /\ r.createdAt < now - BackupCleanupDays)
        /\ cleanupOldUploadStatuses =>
              \A r \in uploadStatuses :
                  r \notin uploadStatuses' <=>
                      (r.status \in {"completed", "failed"}
                       /\ r.createdAt < now - UploadCleanupDays)
      ]_vars

C10_Witness ==
    /\ cleaned.backup > 0
    /\ \E r \in backupStatuses :
          r.status = "processing" /\ r.createdAt < now - BackupCleanupDays


(***************************************************************************)
(* Properties of upsertTableData.                                          *)
(***************************************************************************)
\* Two rows are the same row for the backup: equal ids when the source has an
\* id column and both ids are set, equal in every column otherwise.
SameIdentity(a, b) ==
    IF hasIdColumn /\ a.id # Null /\ b.id # Null THEN a.id = b.id ELSE a = b

BothDone == \A p \in Jobs : rec[p].pc = "done"

\* C5: when two backup jobs have reconciled the same source rows into the
\* same mirror table, in any interleaving, the mirror holds one row per row
\* identity and each job counted every row as inserted or skipped.
C5_OneRowPerIdentity ==
    BothDone =>
        /\ \A k, l \in DOMAIN mirror :
              k # l => ~SameIdentity(mirror[k], mirror[l])
        /\ (\A k \in DOMAIN sourceRows : sourceRows[k].v # "bad") =>
              \A p \in Jobs : rec[p].inserted + rec[p].skipped = Len(sourceRows)

C7_NeverOverwrites ==
    \A p \in Jobs :
        rec[p].pc # "idle" =>
            /\ Len(mirror) >= Len(rec[p].before)
            /\ SubSeq(mirror, 1, Len(rec[p].before)) = rec[p].before
            /\ \A k \in DOMAIN rec[p].added, l \in DOMAIN rec[p].before :
                  ~SameIdentity(rec[p].added[k], rec[p].before[l])

C7_Witness ==
    \E p \in Jobs :
        /\ rec[p].pc = "done"
        /\ rec[p].added # <<>>
        /\ \E l \in DOMAIN rec[p].before, k \in DOMAIN sourceRows :
              /\ SameIdentity(rec[p].before[l], sourceRows[k])
              /\ rec[p].before[l].v # sourceRows[k].v
              /\ mirror[l] = rec[p].before[l]

(***************************************************************************)
(* Properties of uploadTableRecords.                                       *)
(***************************************************************************)
KeyIn(table, key) == \E r \in table : r.id = key

\* C8: a finished run reports as uploaded the records, among those processed
\* without error, whose key was not in the remote table before the run, and
\* as matched those whose key was there.
C8_CountsNewAndExisting ==
    up.pc = "done" =>
        /\ up.uploadedCount =
              Cardinality({k \in up.ok : ~KeyIn(up.before, records[k].id)})
        /\ up.matchedCount =
              Cardinality({k \in up.ok : KeyIn(up.before, records[k].id)})

\* C9: after a run, for every record processed without error the remote table
\* holds exactly one row with the record's key, every column of that row has
\* the record's value, and no remote row carries backup_created_at or
\* backup_updated_at.
C9_RemoteEqualsMirror ==
    up.pc = "done" =>
        /\ \A k \in up.ok :
              /\ Cardinality({r \in remote : r.id = records[k].id}) = 1
              /\ \A r \in remote : r.id = records[k].id => r.v = records[k].v
        /\ \A r \in remote :
              DOMAIN r \cap {"backup_created_at", "backup_updated_at"} = {}


(***************************************************************************)
(* Properties of setStatus on an existing record.                          *)
(***************************************************************************)
\* Patches a caller may pass for an existing job.
UpdatePatches ==
    { [status |-> "processing", progress |-> 30, message |-> "Fetching..."],
      [status |-> "failed", error |-> "error"],
      [status |-> "completed", progress |-> 100, result |-> "result",
       isAutomatic |-> TRUE],
      [progress |-> 50],
      [status |-> "processing", type |-> "files", backendName |-> "Z"],
      [status |-> "processing", type |-> "database", backendName |-> "A",
       progress |-> 0, message |-> "started", result |-> Null, error |-> Null,
       isAutomatic |-> FALSE] }

\* The fields an update writes from the patch.
BackupPatchFields == {"status", "progress", "message", "result", "error", "isAutomatic"}
UploadPatchFields == {"status", "progress", "message", "result", "error"}

\* The record q is the record r after a sparse update with the patch: written
\* fields from the patch, every other field but updatedAt as before.
SparselyUpdated(r, q, patch, written) ==
    /\ DOMAIN q = DOMAIN r
    /\ \A f \in DOMAIN r \ {"updatedAt"} :
          q[f] = IF f \in written /\ Has(patch, f) THEN patch[f] ELSE r[f]
    /\ q.updatedAt = now
    /\ q.updatedAt >= r.updatedAt

C12_DistinctJobIds ==
    \A i, j \in DOMAIN tasks : i # j => tasks[i].jobId # tasks[j].jobId


(***************************************************************************)
(* Properties of deleting a job record.                                    *)
(***************************************************************************)
\* C13: deleting the record of a running job does not stop its background
\* work: no task is thrown out of its work by the missing record, and no
\* task ends with an unhandled error.
C13_TaskSurvivesDelete ==
    \A i \in DOMAIN tasks :
        /\ tasks[i].error # "Missing required fields"
        /\ tasks[i].pc \notin {"rejected", "killed"}

(***************************************************************************)
(* Properties of the comparison report (SpecCompare).                      *)
(***************************************************************************)
Entries == {cmp.tablesComparison[k] : k \in DOMAIN cmp.tablesComparison}

Mirrored == {e \in Entries : e.backupTableName # <<>>}

\* The rows the two databases hold for the table of a report entry.
RemoteIdsOf(e) == remoteTables[e.tableName]
MirrorIdsOf(e) == mirrorTables[<<"backup">> \o e.tableName]

\* C14: the progress of a compared table is an integer in 0..100, and it is
\* 100 exactly when the remote table has rows and the mirror has at least as
\* many, or the remote table is empty and the mirror is not.
C14_ProgressIsPercentage ==
    \A e \in Mirrored :
        LET remoteCount == Cardinality(RemoteIdsOf(e))
            mirrorCount == Len(MirrorIdsOf(e))
        IN  /\ e.progress \in 0..100
            /\ e.progress = 100 <=>
                   \/ (remoteCount > 0 /\ mirrorCount >= remoteCount)
                   \/ (remoteCount = 0 /\ mirrorCount > 0)

\* C15: a remote table with a mirror is fully_backed_up exactly when its
\* progress is 100, not_backed_up exactly when the mirror is empty and
\* partially_backed_up exactly when the mirror has rows and the progress is
\* below 100; a remote table without a mirror is not_backed_up with its whole
\* row count outstanding.
C15_StatusFollowsProgress ==
    /\ \A e \in Mirrored :
          LET mirrorCount == Len(MirrorIdsOf(e))
          IN  /\ e.status \in {"fully_backed_up", "partially_backed_up", "not_backed_up"}
              /\ e.status = "fully_backed_up" <=> e.progress = 100
              /\ e.status = "not_backed_up" <=> mirrorCount = 0
              /\ e.status = "partially_backed_up" <=>
                     (mirrorCount > 0 /\ e.progress < 100)
    /\ \A e \in Entries \ Mirrored :
          /\ e.status = "not_backed_up"
          /\ e.difference = Cardinality(RemoteIdsOf(e))

\* C16: missingRecordsCount of a compared table is the number of remote ids
\* that have no mirror row, and the listed ids are those ids (the first
\* MissingCap of them when there are more).
C16_MissingCountIsTrue ==
    \A e \in Mirrored :
        LET missing == RemoteIdsOf(e) \ Range(MirrorIdsOf(e))
        IN  /\ e.missingRecordsCount = Cardinality(missing)
            /\ Range(e.missingRecordsIds) \subseteq missing
            /\ Len(e.missingRecordsIds) <= MissingCap
            /\ Cardinality(missing) <= MissingCap =>
                   Range(e.missingRecordsIds) = missing

\* The mirror tables whose base table is not internal and has no remote
\* counterpart; the tracker's own table backup_statuses is not a mirror.
Orphans ==
    {n \in DOMAIN mirrorTables :
        /\ StartsWithBackup(n)
        /\ n \notin internalTables
        /\ Tail(n) \notin internalTables
        /\ getBaseTableName(n) \notin internalTables
        /\ Tail(n) \notin DOMAIN remoteTables}

\* C17: once the report is returned, every backup table whose base table is
\* not internal and is absent from the remote database is listed exactly once
\* in missingInRemote, no other table is listed, and summary.missingInRemote
\* is their number.
C17_OrphansReported ==
    cmp.pc = "done" =>
        /\ \A n \in Orphans :
              Cardinality({k \in DOMAIN cmp.missingInRemote :
                              cmp.missingInRemote[k].backupTableName = n}) = 1
        /\ \A k \in DOMAIN cmp.missingInRemote :
              cmp.missingInRemote[k].backupTableName \in Orphans
        /\ cmp.summary.missingInRemote = Cardinality(Orphans)

(***************************************************************************)
(* Properties of the file operations.                                      *)
(***************************************************************************)
KeysOf(list) == {list[k].key : k \in DOMAIN list}

BucketKeys == KeysOf(bucket)

\* The size the listing gives for a key: that of its last entry.
ListedSize(key) ==
    bucket[CHOOSE k \in DOMAIN bucket :
              /\ bucket[k].key = key
              /\ \A j \in DOMAIN bucket : bucket[j].key = key => j <= k].size

NoKeyTwice(list) == Cardinality(KeysOf(list)) = Len(list)

\* C18: in the report of compareBackupFiles the four lists hold no key twice
\* and split the keys of the bucket and of the local tree: bucket-only keys in
\* missingInLocal, local-only keys in missingInBucket, keys on both sides in
\* matchingFiles when the sizes are equal and in differentFiles when they are
\* not; the four summary counters are the four list lengths.
C18_FilesPartitioned ==
    fc.pc = "done" =>
        /\ KeysOf(fc.missingInLocal) = BucketKeys \ DOMAIN disk
        /\ KeysOf(fc.missingInBucket) = DOMAIN disk \ BucketKeys
        /\ KeysOf(fc.matchingFiles) =
               {k \in BucketKeys \cap DOMAIN disk : ListedSize(k) = disk[k]}
        /\ KeysOf(fc.differentFiles) =
               {k \in BucketKeys \cap DOMAIN disk : ListedSize(k) # disk[k]}
        /\ NoKeyTwice(fc.missingInLocal) /\ NoKeyTwice(fc.missingInBucket)
        /\ NoKeyTwice(fc.matchingFiles) /\ NoKeyTwice(fc.differentFiles)
        /\ fc.summary.missingInLocal = Len(fc.missingInLocal)
        /\ fc.summary.missingInBucket = Len(fc.missingInBucket)
        /\ fc.summary.matchingFiles = Len(fc.matchingFiles)
        /\ fc.summary.differentFiles = Len(fc.differentFiles)

\* A finished comparison with a key in each of the four lists is out of reach
\* with two keys; this one has a differing file and a bucket-only file.
C18_Witness ==
    /\ fc.pc = "done"
    /\ fc.differentFiles # <<>>
    /\ fc.missingInLocal # <<>>

\* A step of backupFiles that counts the file at hand as skipped.
SkipsFile == bf.pc = "files" /\ bf'.skippedFiles = bf.skippedFiles + 1

\* A step in which a run returns after an earlier run that returned without
\* an error.
ReturnsAfterCleanRun ==
    /\ Len(bf'.results) = Len(bf.results) + 1
    /\ bf.results # <<>>
    /\ bf.results[Len(bf.results)].errors = <<>>
    /\ bf.results[Len(bf.results)].run = bf.run - 1

\* C19: backupFiles counts a file whose local path holds a file as skipped and
\* leaves the local tree as it is, and then the local file is a whole copy of
\* the bucket file; a run that follows a run without errors on the same bucket
\* downloads nothing and skips every file.
C19_SkipsOnlyCompleteCopies ==
    [][ /\ SkipsFile =>
              /\ CurrentFile.key \in DOMAIN disk
              /\ disk' = disk
              /\ disk[CurrentFile.key] = CurrentFile.size
        /\ ReturnsAfterCleanRun =>
              /\ bf.downloadedFiles = 0
              /\ bf.skippedFiles = bf.totalFiles ]_vars

\* C20: a files upload job whose backend lacks one of the three object-store
\* credentials ends failed and sends nothing to the bucket, whatever the
\* local tree holds.
C20_FailsWithoutCredentials ==
    (uf.pc = "done" /\ ~(CredentialNames \subseteq uf.attributes)) =>
        /\ uf.status = "failed"
        /\ uf.error # Null
        /\ bucket = <<>>

(***************************************************************************)
(* Further properties of the job trackers (Spec).                          *)
(***************************************************************************)
\* The steps of a task that come before any transfer is called.
BeforeTransfer == {"start", "done"}

RecordsOf(t) ==
    {r \in backupStatuses \cup uploadStatuses : r.jobId = t.jobId}

\* C21: a manual backup, an upload or a scheduled backup whose backend lacks
\* the URL it needs never calls a transfer, and when it has ended its job is
\* failed with the 'not configured' error.
C21_MissingUrlFailsAtOnce ==
    \A i \in DOMAIN tasks :
        UrlMissing(tasks[i]) =>
            /\ tasks[i].pc \in BeforeTransfer
            /\ tasks[i].pc = "done" =>
                   \A r \in RecordsOf(tasks[i]) :
                       r.status = "failed" /\ r.error = "URL not configured"

\* The job records of both trackers before and after a step.
JobRecords == backupStatuses \cup uploadStatuses
JobRecordsAfter == backupStatuses' \cup uploadStatuses'

\* C26: the progress of a job record is an integer in 0..100, it is 0 when
\* the record is created, no step lowers it, and a completed job has
\* progress 100.
C26_ProgressOnlyGrows ==
    [][ \A q \in JobRecordsAfter :
           /\ q.progress \in 0..100
           /\ q.status = "completed" => q.progress = 100
           /\ \A r \in JobRecords : r.jobId = q.jobId => q.progress >= r.progress
           /\ (\A r \in JobRecords : r.jobId # q.jobId) => q.progress = 0 ]_vars

\* The background tasks a step launches.
Launched == {i \in DOMAIN tasks' : i \notin DOMAIN tasks}

\* C24: a firing of the scheduled backup launches exactly one job for every
\* setting; the record of a launched backup job is new, in status processing
\* with progress 0, with isAutomatic true for a scheduled job and false for a
\* manual one; and no step changes the isAutomatic of a record.
C24_AutomaticFlag ==
    [][ /\ \A i \in Launched :
              tasks'[i].kind \in {"auto", "backup"} =>
                  /\ ~Exists(backupStatuses, tasks'[i].jobId)
                  /\ \E q \in backupStatuses' :
                        /\ q.jobId = tasks'[i].jobId
                        /\ q.isAutomatic = (tasks'[i].kind = "auto")
                        /\ q.status = "processing"
                        /\ q.progress = 0
        /\ (\E i \in Launched : tasks'[i].kind = "auto") =>
              \A s \in findAll :
                  Cardinality({i \in Launched :
                                  /\ tasks'[i].kind = "auto"
                                  /\ tasks'[i].backendName = s.backendname}) = 1
        /\ \A r \in backupStatuses, q \in backupStatuses' :
              q.jobId = r.jobId => q.isAutomatic = r.isAutomatic ]_vars

(***************************************************************************)
(* Further properties of uploadTableRecords (SpecUpload).                  *)
(***************************************************************************)
\* The records whose statement the remote database rejects.
Rejected == {k \in DOMAIN records : UpsertError(CleanRecord(records[k])) # Null}

\* The names under which the rejected records among the first k are recorded.
RECURSIVE RejectedNames(_)
RejectedNames(k) ==
    IF k = 0 THEN <<>>
    ELSE IF k \in Rejected
    THEN Append(RejectedNames(k - 1),
                IF records[k].id = Null THEN "unknown" ELSE records[k].id)
    ELSE RejectedNames(k - 1)

\* C27: a finished run has processed every record; each rejected record is
\* in errors once, in order, under its key or "unknown"; every other record
\* is counted; uploadedRecords + matchedRecords + the number of errors is the
\* number of records.
C27_RowFailureIsLocal ==
    up.pc = "done" =>
        /\ up.ok = DOMAIN records \ Rejected
        /\ [k \in DOMAIN up.errors |-> up.errors[k].record] = RejectedNames(Len(records))
        /\ up.uploadedCount + up.matchedCount + Len(up.errors) = Len(records)

\* A finished run in which a record was rejected and a later one went through.
C27_Witness ==
    /\ up.pc = "done"
    /\ \E j \in Rejected, k \in up.ok : j < k

\* C28: when backupFiles returns, every file of the bucket has been counted
\* once, as downloaded, as skipped or by one entry of errors.
C28_EveryFileCountedOnce ==
    bf.pc = "done" =>
        /\ bf.totalFiles = Len(bucket)
        /\ bf.totalFiles = bf.downloadedFiles + bf.skippedFiles + Len(bf.errors)

(***************************************************************************)
(* Further properties of upsertTableData (SpecReconcile).                  *)
(***************************************************************************)
\* The calls of createTableIfNotExists that have returned.
Ensured == {p \in Jobs : rec[p].pc \notin {"idle", "ensured"}}

\* C29: of the calls of createTableIfNotExists for one table at most one
\* returns created = true, and no call changes the rows of the table.
C29_CreatedOnlyOnce ==
    [][ \A p \in Jobs :
           /\ (rec[p].pc \in {"idle", "ensured"} /\ rec'[p].pc # rec[p].pc)
                  => mirror' = mirror
           /\ (rec[p].pc = "ensured" /\ rec'[p].pc # "ensured" /\ rec'[p].created)
                  => \A q \in Ensured : ~rec[q].created ]_vars

\* The tables backupDatabase recorded as failed and as processed.
FailedTables == Range(bd.results.errors)
ProcessedTables == Range(bd.results.manualCommands)

PagesInOrder ==
    \A k \in DOMAIN bd.log :
        LET e == bd.log[k]
        IN  IF e[1] = "upsert" THEN k > 1 /\ bd.log[k - 1] = <<"fetch", e[2], e[3]>>
            ELSE IF e[3] = 1 THEN \A j \in 1..(k - 1) : bd.log[j][2] # e[2]
            ELSE k > 1 /\ bd.log[k - 1] = <<"upsert", e[2], e[3] - 1>>

\* C25: pages are processed strictly in order, a page being fetched only
\* after the page before it is reconciled, tables are processed one after
\* another, and the page loop of every table ends: backupDatabase returns
\* with its events in that order.
C25_PagesInOrderAndLoopEnds == <>(bd.pc = "done" /\ PagesInOrder)

\* A run that returned after it fetched a second page and read two tables.
C25_Witness ==
    /\ bd # <<>> /\ bd.pc = "done"
    /\ \E k \in DOMAIN bd.log : bd.log[k][1] = "fetch" /\ bd.log[k][3] = 2
    /\ \E j, k \in DOMAIN bd.log : bd.log[j][2] # bd.log[k][2]

\* The rows the run added to one mirror table, and to all of a set of them.
InsertedInto(n) ==
    Len(mirrorTables[n]) - (IF n \in DOMAIN bd.before THEN Len(bd.before[n]) ELSE 0)

RECURSIVE InsertedIntoAll(_)
InsertedIntoAll(S) ==
    IF S = {} THEN 0
    ELSE LET n == CHOOSE x \in S : TRUE
         IN  InsertedInto(n) + InsertedIntoAll(S \ {n})

\* C30: the counters of the result say what the run did: insertedRecords is
\* the number of rows it inserted into the mirror tables and skippedRecords
\* the number of rows it found already there.
C30_CountersMatchWork ==
    bd # <<>> /\ bd.pc = "done" =>
        /\ bd.results.insertedRecords = InsertedIntoAll(DOMAIN mirrorTables)
        /\ bd.results.skippedRecords = bd.found

\* C23: every table name put into a statement is first reduced to the
\* characters [A-Za-z0-9_].
C23_TableNamesSanitized ==
    bd # <<>> => \A s \in bd.sent : s.table = Sanitized(s.table)

====
